---- MODULE Spec2Model ----
(***************************************************************************)
(* Model of src/src/interventions.py: class Interventions.                 *)
(*                                                                         *)
(* A tensor is abstracted to its provenance and its shape:                 *)
(*   [src |-> [kind, name, params, inputs], rows |-> n, cols |-> w].       *)
(* A sample is a function from the vertices of the SEM graph to tensors.   *)
(* A network is a function from its parameters to requires_grad flags and  *)
(* value tags; the parameters are the weight and the bias of every unit    *)
(* layers[0][i] and one parameter standing for all later layers.           *)
(***************************************************************************)
EXTENDS Integers, Sequences, FiniteSets, TLC

(* ------------------------------ bounds --------------------------------- *)
MaxWidth == 2
MaxParams == 2
NSamples == 3
MaxEpochs == 2

(* ----------------------------- universe -------------------------------- *)
VertexOrder == <<"P", "Q", "X", "Y">>
Verts == {VertexOrder[k] : k \in 1..Len(VertexOrder)}
Pos(v) == CHOOSE k \in 1..Len(VertexOrder) : VertexOrder[k] = v
ForwardEdges == {e \in Verts \X Verts : Pos(e[1]) < Pos(e[2])}
\* the verbosity levels the code distinguishes: none, > 0, > 1, > 2
VerboseLevels == {0, 3}
\* an instance attribute that was never assigned
Unset == 0 - 1

(* --------------------------- sequence helpers --------------------------- *)
RECURSIVE SeqSum(_)
SeqSum(s) == IF s = <<>> THEN 0 ELSE Head(s) + SeqSum(Tail(s))

RECURSIVE SeqProd(_)
SeqProd(s) == IF s = <<>> THEN 1 ELSE Head(s) * SeqProd(Tail(s))

Range(s) == {s[k] : k \in 1..Len(s)}

FilterSeq(s, S) == SelectSeq(s, LAMBDA x : x \in S)

Perms(S) == {q \in [1..Cardinality(S) -> S] : \A a, b \in 1..Cardinality(S) : a # b => q[a] # q[b]}

Min(a, b) == IF a < b THEN a ELSE b

(* ----------------- the SEM graph (external collaborator) ---------------- *)
ParentSet(g, v) == {u \in Verts : <<u, v>> \in g}

\* graph.parents(v): the parents as a list, in the graph's vertex order
Parents(g, v) == FilterSeq(VertexOrder, ParentSet(g, v))

\* graph.roots(): the vertices without parents, as a list
Roots(g) == FilterSeq(VertexOrder, {v \in Verts : ParentSet(g, v) = {}})

\* sem.leafs(): the vertices without children
Leafs(g) == {v \in Verts : \A w \in Verts : <<v, w>> \notin g}

RECURSIVE Reach(_, _, _)
Reach(g, S, k) ==
    IF k = 0 THEN S
    ELSE Reach(g, S \cup {w \in Verts : \E u \in S : <<u, w>> \in g}, k - 1)

\* sem.descendants(v): the vertices reachable from v by one edge or more
Descendants(g, v) == Reach(g, {w \in Verts : <<v, w>> \in g}, Cardinality(Verts))

\* sem.get_intervened_graph(proxies): the edges into the proxies are cut
GetIntervenedGraph(g, prox) == {e \in g : e[2] \notin Range(prox)}

\* graph.topological_sort(): any order in which parents precede children
VertexPerms == Perms(Verts)

IndexIn(q, v) == CHOOSE k \in 1..Len(q) : q[k] = v

TopologicalSortTable == [g \in SUBSET ForwardEdges |-> {q \in VertexPerms : \A e \in g : IndexIn(q, e[1]) < IndexIn(q, e[2])}]

TopologicalSorts(g) == TopologicalSortTable[g]

(* ----------------------------- tensors ---------------------------------- *)
Tensor(src, rows, cols) == [src |-> src, rows |-> rows, cols |-> cols]

\* where a tensor comes from: the base sample, a known function applied to a
\* parameter tuple, or a prediction from the values of the parents
Src(kind, name, params, inputs) == [kind |-> kind, name |-> name, params |-> params, inputs |-> inputs]

\* sem.sample(n): one tensor per vertex, n rows each
BaseSample(w, n) == [v \in Verts |-> Tensor(Src("base", v, <<>>, <<>>), n, w[v])]

KnownNames == {"randn", "const", "rand", "range", "bernoulli"}

\* known_functions[func](self, *params): a tensor of n_samples rows, 1 column
KnownFunctions(func, params, ns) == Tensor(Src("func", func, params, <<>>), ns, 1)

(* ------------------------ intervention specification -------------------- *)
\* intervention_spec: a list of <<proxy, functions>> in dict order, functions
\* a list of <<func, parameters>> in dict order, parameters a record
\* [list |-> is a python list, value |-> its tuples; the one tuple if no list]
\* lines 106-107 and 122-123: a value that is no list is wrapped into one
ParamsList(parameters) == IF parameters.list THEN parameters.value ELSE <<parameters.value[1]>>

NProxy(funcs) == SeqSum([k \in 1..Len(funcs) |-> Len(ParamsList(funcs[k][2]))])

\* _set_n_interventions
SetNInterventions(spec) == SeqProd([k \in 1..Len(spec) |-> NProxy(spec[k][2])])

ProxiesOf(spec) == [k \in 1..Len(spec) |-> spec[k][1]]

\* _check_input: the first assertion that fails, "none" when all hold
CheckInput(g, bs, prox, tgt) ==
    IF tgt \notin Leafs(g) THEN "AssertionError"
    ELSE IF bs[tgt].cols # 1 THEN "AssertionError"
    ELSE IF \E k \in 1..Len(prox) : tgt \notin Descendants(g, prox[k]) THEN "AssertionError"
    ELSE "none"

(* --------------------------- training samples --------------------------- *)
\* lines 121-127 for one proxy: one sample per function and parameter tuple,
\* until a function name that known_functions does not hold (KeyError)
RECURSIVE SamplesOfFunctions(_, _, _, _)
SamplesOfFunctions(base, ns, proxy, funcs) ==
    IF funcs = <<>> THEN [err |-> "none", samples |-> <<>>]
    ELSE LET func == Head(funcs)[1]
             plist == ParamsList(Head(funcs)[2])
         IN  IF plist # <<>> /\ func \notin KnownNames
             THEN [err |-> "KeyError", samples |-> <<>>]
             ELSE LET here == [k \in 1..Len(plist) |->
                                 [base EXCEPT ![proxy] = KnownFunctions(func, plist[k], ns)]]
                      rest == SamplesOfFunctions(base, ns, proxy, Tail(funcs))
                  IN  [err |-> rest.err, samples |-> here \o rest.samples]

RECURSIVE SamplesOfSpec(_, _, _)
SamplesOfSpec(base, ns, spec) ==
    IF spec = <<>> THEN [err |-> "none", samples |-> <<>>]
    ELSE LET here == SamplesOfFunctions(base, ns, Head(spec)[1], Head(spec)[2])
         IN  IF here.err # "none" THEN here
             ELSE LET rest == SamplesOfSpec(base, ns, Tail(spec))
                  IN  [err |-> rest.err, samples |-> here.samples \o rest.samples]

\* as _create_intervened_samples, but every sample is the base sample itself
\* (no deep copy), so that the assignments to the samples change the base sample
CreateWithoutCopy(base, ns, spec, vb) ==
    IF vb = Unset THEN [err |-> "AttributeError", samples |-> <<>>, base |-> base]
    ELSE LET r == SamplesOfSpec(base, ns, spec)
         IN  [err |-> r.err, samples |-> r.samples,
              base |-> IF r.samples = <<>> THEN base ELSE r.samples[Len(r.samples)]]

\* _create_intervened_samples: the error raised, the new training_samples and
\* the base sample afterwards (every sample is a deep copy of it)
CreateIntervenedSamplesOp(base, ns, spec, vb) ==
    IF vb = Unset THEN [err |-> "AttributeError", samples |-> <<>>, base |-> base]
    ELSE LET r == SamplesOfSpec(base, ns, spec)
         IN  [err |-> r.err, samples |-> r.samples, base |-> base]

\* as UpdateList, but the target is not excluded
UpdateListWithTarget(ig, tgt, topo) ==
    LET exclude == Range(Roots(ig))
    IN  SelectSeq(topo, LAMBDA v : v \notin exclude)

\* lines 132-134: the vertices _update recomputes, in the order of topo
UpdateList(ig, tgt, topo) ==
    LET exclude == Range(Roots(ig)) \cup {tgt}
    IN  SelectSeq(topo, LAMBDA v : v \notin exclude)

\* sem.predict_from_sample(sample, update, mutate=True): every vertex of
\* update, in order, is recomputed from the current values of its parents
RECURSIVE PredictFromSample(_, _, _)
PredictFromSample(g, sample, update) ==
    IF update = <<>> THEN sample
    ELSE LET v == Head(update)
             ps == Parents(g, v)
             val == Tensor(Src("pred", v, <<>>, [k \in 1..Len(ps) |-> sample[ps[k]].src]),
                           sample[v].rows, sample[v].cols)
         IN  PredictFromSample(g, [sample EXCEPT ![v] = val], Tail(update))

\* the lists UpdateList yields over the orders topological_sort may return
UpdateLists(ig, tgt) == {UpdateList(ig, tgt, topo) : topo \in TopologicalSorts(ig)}

\* _update, update being the list of lines 132-134
UpdateOp(g, samples, update, vb) ==
        IF vb = Unset THEN [err |-> "AttributeError", samples |-> samples, update |-> update]
        ELSE [err |-> "none",
              samples |-> [k \in 1..Len(samples) |-> PredictFromSample(g, samples[k], update)],
              update |-> update]

(* ------------------------------ networks -------------------------------- *)
\* the parameters of a network of w first-layer units
NetParams(w) == {<<"weight", i>> : i \in 0..(w - 1)} \cup {<<"bias", i>> : i \in 0..(w - 1)} \cup {<<"rest", 0>>}

\* layers[0][i].parameters()
UnitParams(i) == {<<"weight", i>>, <<"bias", i>>}

\* sem.learned[target]: one first-layer unit per input column, all trainable
LearnedModel(w) == [grad |-> [q \in NetParams(w) |-> TRUE], val |-> [q \in NetParams(w) |-> "learned"]]

\* the last-dimension widths of the parents of the target, in parent order
ParentWidths(ig, tgt, base) == [k \in 1..Len(Parents(ig, tgt)) |-> base[Parents(ig, tgt)[k]].cols]

RECURSIVE IndexLoopByCount(_, _, _, _)
\* as IndexLoop, but start counts the parents instead of their widths
IndexLoopByCount(parents, base, vertex, start) ==
    IF parents = <<>> THEN [found |-> FALSE, start |-> start, end |-> start]
    ELSE IF Head(parents) = vertex
         THEN [found |-> TRUE, start |-> start, end |-> start + base[Head(parents)].cols]
         ELSE IndexLoopByCount(Tail(parents), base, vertex, start + 1)

RECURSIVE IndexLoop(_, _, _, _)
\* lines 153-158: the loop over the parents; found is FALSE when it ends
\* without a break, and end is then unbound
IndexLoop(parents, base, vertex, start) ==
    IF parents = <<>> THEN [found |-> FALSE, start |-> start, end |-> start]
    ELSE IF Head(parents) = vertex
         THEN [found |-> TRUE, start |-> start, end |-> start + base[Head(parents)].cols]
         ELSE IndexLoop(Tail(parents), base, vertex, start + base[Head(parents)].cols)

\* _get_parameter_indices
GetParameterIndicesOp(ig, tgt, base, vertex, vb) ==
    IF vb = Unset THEN [err |-> "AttributeError", start |-> 0, end |-> 0]
    ELSE LET r == IndexLoop(Parents(ig, tgt), base, vertex, 0)
         IN  IF r.found THEN [err |-> "none", start |-> r.start, end |-> r.end]
             ELSE [err |-> "UnboundLocalError", start |-> 0, end |-> 0]

\* as FreezeAll, but nothing is frozen
FreezeNone(net) == net

\* lines 171-172: every parameter is frozen
FreezeAll(net) == [net EXCEPT !.grad = [q \in DOMAIN net.grad |-> FALSE]]

\* lines 191-196: the units start .. end-1 get gradients
Unfreeze(net, start, end, biases) ==
    LET on == IF biases THEN UNION {UnitParams(i) : i \in start..(end - 1)}
              ELSE {<<"weight", i>> : i \in start..(end - 1)}
    IN  [net EXCEPT !.grad = [q \in DOMAIN net.grad |-> IF q \in on THEN TRUE ELSE net.grad[q]]]

RECURSIVE UnfreezeLoop(_, _, _, _, _, _, _, _)
\* lines 185-196: the loop over the parents of the target
UnfreezeLoop(net, todo, ig, tgt, base, prox, biases, vb) ==
    IF todo = <<>> THEN net
    ELSE LET v == Head(todo)
             r == GetParameterIndicesOp(ig, tgt, base, v, vb)
         IN  IF v \in Range(prox)
             THEN UnfreezeLoop(Unfreeze(net, r.start, r.end, biases), Tail(todo), ig, tgt, base, prox, biases, vb)
             ELSE UnfreezeLoop(net, Tail(todo), ig, tgt, base, prox, biases, vb)

\* as _copy_and_freeze, but without the deep copy: the model itself is frozen
CopyAndFreezeInPlace(model, ig, tgt, base, prox, biases, vb) ==
    IF vb = Unset THEN [err |-> "AttributeError", corrected |-> model, model |-> model]
    ELSE LET net == UnfreezeLoop(FreezeAll(model), Parents(ig, tgt), ig, tgt, base, prox, biases, vb)
         IN  [err |-> "none", corrected |-> net, model |-> net]

\* _copy_and_freeze: the error raised, the network returned and the model
\* passed in as it is afterwards (the copy is deep, the model is not touched)
CopyAndFreezeOp(model, ig, tgt, base, prox, biases, vb) ==
    IF vb = Unset THEN [err |-> "AttributeError", corrected |-> model, model |-> model]
    ELSE [err |-> "none",
          corrected |-> UnfreezeLoop(FreezeAll(model), Parents(ig, tgt), ig, tgt, base, prox, biases, vb),
          model |-> model]

(* ----------------------------- training --------------------------------- *)
\* _set_training_samples: _create_intervened_samples, then _update
SetTrainingSamplesOp(g, base, ns, spec, update, vb) ==
    LET c == CreateIntervenedSamplesOp(base, ns, spec, vb)
        u == UpdateOp(g, c.samples, update, vb)
    IN  IF c.err # "none" THEN [err |-> c.err, samples |-> c.samples, base |-> c.base, update |-> <<>>]
        ELSE [err |-> u.err, samples |-> u.samples, base |-> c.base, update |-> u.update]

\* line 233: the sanity check
SanityCheck(samples, nint) == Len(samples) = nint

\* line 244: the parameters handed to the optimizer
Trainable(net) == {q \in DOMAIN net.grad : net.grad[q]}

\* combine_variables(parents, sample): the columns of the parents side by side
CombinedWidth(parents, sample) == SeqSum([k \in 1..Len(parents) |-> sample[parents[k]].cols])

\* the number of input columns the network takes: one per first-layer unit
InputWidth(net) == Cardinality({q \in DOMAIN net.grad : q[1] = "weight"})

\* torch.randperm(n): the permutations of 0 .. n-1
RandpermTable == [n \in 0..(NSamples + 1) |-> Perms(0..(n - 1))]

Randperm(n) == RandpermTable[n]

\* line 255
BatchEnd(i1, batchsize, ns) == Min(i1 + batchsize, ns)

\* as BatchRows, but the rows are sliced without the permutation
BatchRowsUnpermuted(p, i1, i2) == [k \in 1..(i2 - i1) |-> i1 + k - 1]

\* lines 261-262: data = combine_variables(parents, sample)[p]; data[i1:i2, :]
\* row j of data is row p[j] of the sample; the rows i1 .. i2-1 of data
BatchRows(p, i1, i2) == SubSeq(p, i1 + 1, i2)

\* lines 259-263: Ys[r, i] is the prediction for row r of the batch of sample i
ForwardPass(p, i1, i2, nint, samples) ==
    [r \in 1..(i2 - i1) |-> [i \in 1..nint |->
        IF i <= Len(samples) THEN [sample |-> i, row |-> BatchRows(p, i1, i2)[r]]
        ELSE [sample |-> 0, row |-> 0]]]

\* line 269: opt.step() changes the parameters the optimizer holds
OptStep(net) == [net EXCEPT !.val = [q \in DOMAIN net.val |-> IF net.grad[q] THEN "retrained" ELSE net.val[q]]]

(* ------------------------------- state ---------------------------------- *)
VARIABLES
    graph,              \* the graph of the SEM
    widths,             \* the last-dimension width of every vertex in sem.sample
    verboseArg,         \* the verbose argument of the constructor
    constructed,        \* __init__ returned without an error
    base_sample, n_samples, interventions, proxies, intervened_graph, target,
    n_interventions, training_samples,
    verbose,            \* the instance attribute verbose, Unset when it is missing
    learned,            \* sem.learned[target]
    ret,                \* the last call: its name, the error it raised, what it returned
    corrected,          \* the local corrected of train_corrected while it runs
    pc, targs, epoch, p, i1, Ys, rowsUsed   \* the position in train_corrected and its locals

args == <<graph, widths, verboseArg>>
attrs == <<constructed, base_sample, n_samples, interventions, proxies, intervened_graph, target, n_interventions>>
locals == <<pc, targs, epoch, p, i1, Ys, rowsUsed>>
vars == <<args, attrs, training_samples, verbose, learned, ret, corrected, locals>>

\* a call that returned nothing; has tells that net is a network it returned
Ret(op, err) == [op |-> op, err |-> err, start |-> 0, end |-> 0, vertex |-> "", update |-> <<>>,
                 biases |-> FALSE, has |-> FALSE, net |-> learned]

NoArgs == [batchsize |-> 0, epochs |-> 0, biases |-> FALSE]


(* ------------------------- constructor arguments ------------------------ *)
List(tuples) == [list |-> TRUE, value |-> tuples]
NoList(tuple) == [list |-> FALSE, value |-> <<tuple>>]
ConstList(c) == List([k \in 1..c |-> <<k>>])
RandnList(c) == List([k \in 1..c |-> <<0, k>>])

\* the functions dictionaries of one proxy
FunctionDicts ==
    {<<>>, << <<"randn", NoList(<<0, 3>>)>> >>, << <<"gauss", List(<< <<0, 1>> >>)>> >>}
    \cup {<< <<"const", ConstList(c)>> >> : c \in 0..MaxParams}
    \cup {<< <<"randn", RandnList(a)>>, <<"const", ConstList(c)>> >> : a \in 1..MaxParams, c \in 1..MaxParams}

\* the specifications over the proxies of ps (a list), the dictionaries from D
SpecsOver(ps, D) == {[k \in 1..Len(ps) |-> <<ps[k], d[k]>>] : d \in [1..Len(ps) -> D]}

ProxyLists == {<<>>, <<"P">>, <<"Q">>, <<"P", "Q">>}

ExampleGraph == {<<"P", "X">>, <<"P", "Y">>, <<"X", "Y">>, <<"Q", "Y">>}

UnitWidths == [v \in Verts |-> 1]

Input(g, t, spec, w, n, va) == [graph |-> g, target |-> t, spec |-> spec, widths |-> w, n |-> n, verbose |-> va]

\* every graph, every target, two const parameters for every proxy
GraphInputs ==
    {Input(g, t, [k \in 1..Len(ps) |-> <<ps[k], << <<"const", ConstList(2)>> >> >>], UnitWidths, 1, 0) :
        g \in SUBSET ForwardEdges, t \in Verts, ps \in ProxyLists \ {<<>>}}

\* every specification over the proxies P and Q of the example graph
SpecInputs ==
    {Input(ExampleGraph, "Y", spec, UnitWidths, 1, 0) :
        spec \in UNION {SpecsOver(ps, FunctionDicts) : ps \in ProxyLists}}

\* every choice of widths on the example graph
WidthInputs ==
    {Input(ExampleGraph, "Y", spec, w, 1, 0) :
        spec \in UNION {SpecsOver(ps, {<< <<"const", ConstList(2)>> >>}) : ps \in {<<"P">>, <<"X">>, <<"P", "Q">>, <<"Q", "X">>}},
        w \in [Verts -> 1..MaxWidth]}

\* samples of several rows and every verbose argument
RowInputs ==
    {Input(ExampleGraph, "Y", spec, UnitWidths, NSamples, va) :
        spec \in UNION {SpecsOver(ps, {<< <<"const", ConstList(2)>> >>}) : ps \in {<<"P">>, <<"P", "Q">>}},
        va \in VerboseLevels}

Inputs == GraphInputs \cup SpecInputs \cup WidthInputs \cup RowInputs

(* ------------------------------- __init__ ------------------------------- *)
\* lines 76-85; the argument verbose is not stored
Init ==
    \E in \in Inputs :
        /\ graph = in.graph
        /\ widths = in.widths
        /\ verboseArg = in.verbose
        /\ base_sample = BaseSample(in.widths, in.n)
        /\ n_samples = in.n
        /\ interventions = in.spec
        /\ proxies = ProxiesOf(in.spec)
        /\ intervened_graph = GetIntervenedGraph(in.graph, ProxiesOf(in.spec))
        /\ target = in.target
        /\ n_interventions = SetNInterventions(in.spec)
        /\ training_samples = <<>>
        /\ verbose = Unset
        /\ learned = LearnedModel(SeqSum(ParentWidths(in.graph, in.target, BaseSample(in.widths, in.n))))
        /\ LET e == CheckInput(in.graph, BaseSample(in.widths, in.n), ProxiesOf(in.spec), in.target)
           IN  /\ constructed = (e = "none")
               /\ ret = Ret("__init__", e)
        /\ corrected = learned
        /\ pc = "idle"
        /\ targs = NoArgs
        /\ epoch = 0
        /\ p = <<>>
        /\ i1 = 0
        /\ Ys = <<>>
        /\ rowsUsed = <<>>

Idle == constructed /\ pc = "idle"

(* ------------------------------ operations ------------------------------ *)
\* the class reads the attribute verbose but never assigns it: client code
\* assigns it, to the level it gave the constructor
AssignVerbose ==
    /\ Idle
    /\ verbose = Unset
    /\ verbose' = verboseArg
    /\ UNCHANGED <<args, attrs, training_samples, learned, ret, corrected, locals>>

CreateIntervenedSamples ==
    /\ Idle
    /\ LET r == CreateIntervenedSamplesOp(base_sample, n_samples, interventions, verbose)
       IN  /\ training_samples' = r.samples
           /\ base_sample' = r.base
           /\ ret' = Ret("_create_intervened_samples", r.err)
    /\ UNCHANGED <<args, constructed, n_samples, interventions, proxies, intervened_graph, target, n_interventions>>
    /\ UNCHANGED <<verbose, learned, corrected, locals>>

Update ==
    /\ Idle
    /\ \E update \in UpdateLists(intervened_graph, target) :
        LET r == UpdateOp(graph, training_samples, update, verbose)
        IN  /\ training_samples' = r.samples
            /\ ret' = [Ret("_update", r.err) EXCEPT !.update = r.update]
    /\ UNCHANGED <<args, attrs, verbose, learned, corrected, locals>>

SetTrainingSamples ==
    /\ Idle
    /\ \E update \in UpdateLists(intervened_graph, target) :
        LET r == SetTrainingSamplesOp(graph, base_sample, n_samples, interventions, update, verbose)
        IN  /\ training_samples' = r.samples
            /\ base_sample' = r.base
            /\ ret' = [Ret("_set_training_samples", r.err) EXCEPT !.update = r.update]
    /\ UNCHANGED <<args, constructed, n_samples, interventions, proxies, intervened_graph, target, n_interventions>>
    /\ UNCHANGED <<verbose, learned, corrected, locals>>

GetParameterIndices(vertex) ==
    /\ Idle
    /\ LET r == GetParameterIndicesOp(intervened_graph, target, base_sample, vertex, verbose)
       IN  ret' = [Ret("_get_parameter_indices", r.err) EXCEPT !.start = r.start, !.end = r.end, !.vertex = vertex]
    /\ UNCHANGED <<args, attrs, training_samples, verbose, learned, corrected, locals>>

CopyAndFreeze(biases) ==
    /\ Idle
    /\ LET r == CopyAndFreezeOp(learned, intervened_graph, target, base_sample, proxies, biases, verbose)
       IN  /\ learned' = r.model
           /\ ret' = IF r.err = "none"
                     THEN [Ret("_copy_and_freeze", r.err) EXCEPT !.biases = biases, !.has = TRUE, !.net = r.corrected]
                     ELSE [Ret("_copy_and_freeze", r.err) EXCEPT !.biases = biases]
    /\ UNCHANGED <<args, attrs, training_samples, verbose, corrected, locals>>

Summary ==
    /\ Idle
    /\ ret' = Ret("summary", "none")
    /\ UNCHANGED <<args, attrs, training_samples, verbose, learned, corrected, locals>>

(* ---------------------------- train_corrected --------------------------- *)
\* lines 223-249: up to the loop over the epochs
TrainCorrected ==
    /\ Idle
    /\ \E update \in UpdateLists(intervened_graph, target) :
        LET s == SetTrainingSamplesOp(graph, base_sample, n_samples, interventions, update, verbose)
            early == IF s.err # "none" THEN s.err
                     ELSE IF ~SanityCheck(s.samples, n_interventions) THEN "AssertionError"
                     ELSE "none"
        IN  /\ training_samples' = s.samples
            /\ base_sample' = s.base
            /\ IF early # "none"
               THEN /\ ret' = Ret("train_corrected", early)
                    /\ UNCHANGED <<learned, pc, targs, corrected>>
               ELSE \E biases \in BOOLEAN :
                    LET c == CopyAndFreezeOp(learned, intervened_graph, target, base_sample, proxies, biases, verbose)
                        late == IF c.err # "none" THEN c.err
                                ELSE IF Trainable(c.corrected) = {} THEN "ValueError"
                                ELSE "none"
                    IN  /\ learned' = c.model
                        /\ IF late # "none"
                           THEN /\ ret' = Ret("train_corrected", late)
                                /\ UNCHANGED <<pc, targs, corrected>>
                           ELSE \E batchsize \in 1..(n_samples + 1), epochs \in 0..MaxEpochs :
                                /\ pc' = "epochs"
                                /\ targs' = [batchsize |-> batchsize, epochs |-> epochs, biases |-> biases]
                                /\ corrected' = c.corrected
                                /\ ret' = Ret("train_corrected", "running")
    /\ UNCHANGED <<args, constructed, n_samples, interventions, proxies, intervened_graph, target, n_interventions>>
    /\ UNCHANGED <<verbose, epoch, p, i1, Ys, rowsUsed>>

\* lines 250-251: the next epoch draws its permutation of the rows
EpochStart ==
    /\ pc = "epochs"
    /\ epoch < targs.epochs
    /\ \E q \in Randperm(n_samples) : p' = q
    /\ i1' = 0
    /\ rowsUsed' = <<>>
    /\ Ys' = <<>>
    /\ pc' = "batches"
    /\ UNCHANGED <<args, attrs, training_samples, verbose, learned, ret, corrected, targs, epoch>>

\* lines 253-269: one minibatch
Minibatch ==
    /\ pc = "batches"
    /\ i1 < n_samples
    /\ LET i2 == BatchEnd(i1, targs.batchsize, n_samples)
           parents == Parents(intervened_graph, target)
           fits == \A k \in 1..Len(training_samples) :
                       CombinedWidth(parents, training_samples[k]) = InputWidth(corrected)
       IN  IF fits
           THEN /\ Ys' = ForwardPass(p, i1, i2, n_interventions, training_samples)
                /\ rowsUsed' = rowsUsed \o BatchRows(p, i1, i2)
                /\ corrected' = OptStep(corrected)
                /\ i1' = i1 + targs.batchsize
                /\ UNCHANGED <<pc, targs, epoch, p, ret>>
           ELSE /\ ret' = Ret("train_corrected", "RuntimeError")
                /\ pc' = "idle"
                /\ targs' = NoArgs
                /\ epoch' = 0
                /\ p' = <<>>
                /\ i1' = 0
                /\ Ys' = <<>>
                /\ rowsUsed' = <<>>
                /\ corrected' = learned
    /\ UNCHANGED <<args, attrs, training_samples, verbose, learned>>

\* the loop over the minibatches of an epoch ends
EpochEnd ==
    /\ pc = "batches"
    /\ i1 >= n_samples
    /\ epoch' = epoch + 1
    /\ pc' = "epochs"
    /\ UNCHANGED <<args, attrs, training_samples, verbose, learned, ret, corrected, targs, p, i1, Ys, rowsUsed>>

\* lines 270-272: return corrected
TrainReturn ==
    /\ pc = "epochs"
    /\ epoch = targs.epochs
    /\ ret' = [Ret("train_corrected", "none") EXCEPT !.biases = targs.biases, !.has = TRUE, !.net = corrected]
    /\ corrected' = learned
    /\ pc' = "idle"
    /\ targs' = NoArgs
    /\ epoch' = 0
    /\ p' = <<>>
    /\ i1' = 0
    /\ Ys' = <<>>
    /\ rowsUsed' = <<>>
    /\ UNCHANGED <<args, attrs, training_samples, verbose, learned>>

Next ==
    \/ AssignVerbose
    \/ CreateIntervenedSamples
    \/ Update
    \/ SetTrainingSamples
    \/ \E vertex \in Verts : GetParameterIndices(vertex)
    \/ \E biases \in BOOLEAN : CopyAndFreeze(biases)
    \/ Summary
    \/ TrainCorrected
    \/ EpochStart
    \/ Minibatch
    \/ EpochEnd
    \/ TrainReturn

Spec == Init /\ [][Next]_vars

(* ------------------------------- claims --------------------------------- *)
\* the parents of the target in the intervened graph
TargetParents == {u \in Verts : <<u, target>> \in intervened_graph}

\* the first input column of parent v: the widths of the parents before it
Offset(v) ==
    LET ps == Parents(intervened_graph, target)
    IN  SeqSum([k \in 1..Len(ps) |-> IF k < IndexIn(ps, v) THEN base_sample[ps[k]].cols ELSE 0])

\* input column i belongs to a proxy that is a parent of the target
ProxyColumn(i) ==
    \E v \in TargetParents \cap Range(proxies) : Offset(v) <= i /\ i < Offset(v) + base_sample[v].cols

\* C1: a network returned by _copy_and_freeze or train_corrected has
\* requires_grad true on exactly the weights of the first-layer units of the
\* proxy columns, and with biases=True also on the biases of those units
C1_TrainableExactly ==
    ret.has =>
        \A q \in DOMAIN ret.net.grad :
            ret.net.grad[q] <=> (/\ q[1] \in (IF ret.biases THEN {"weight", "bias"} ELSE {"weight"})
                                 /\ ProxyColumn(q[2]))

C1_Witness ==
    /\ ret.has
    /\ ret.op = "train_corrected"
    /\ ret.biases
    /\ \E i \in 1..MaxWidth :
        /\ {<<"bias", i>>, <<"weight", i - 1>>, <<"weight", i + 1>>} \subseteq DOMAIN ret.net.grad
        /\ ret.net.grad[<<"bias", i>>]
        /\ ret.net.grad[<<"weight", i - 1>>]
        /\ ~ret.net.grad[<<"weight", i + 1>>]

\* C2: the number of training samples _set_training_samples produces is
\* n_interventions, and the sanity check of train_corrected never fails; stated
\* for the specifications that name a proxy and give every proxy an intervention
C2_SanityCheckHolds ==
    (proxies # <<>> /\ \A k \in 1..Len(interventions) : NProxy(interventions[k][2]) > 0) =>
        /\ (ret.op = "_set_training_samples" /\ ret.err = "none") => Len(training_samples) = n_interventions
        /\ ~(ret.op = "train_corrected" /\ ret.err = "AssertionError")

\* C3: the constructor fails exactly when the target is no leaf, is wider than
\* one column or is no descendant of some proxy, and no call on a constructed
\* object fails with anything but an assertion
C3_AssertionsOnly ==
    /\ ~constructed <=> (\/ \E w \in Verts : <<target, w>> \in graph
                         \/ widths[target] # 1
                         \/ \E k \in 1..Len(proxies) : target \notin Descendants(graph, proxies[k]))
    /\ ret.err \in {"none", "running", "AssertionError"}

\* C4: the instance's verbosity level is the one given to the constructor, and
\* no read of it fails
C4_VerboseInEffect ==
    constructed => (verbose = verboseArg /\ ret.err # "AttributeError")

\* C5: sem.learned[target] keeps its parameter values and its requires_grad
\* flags through _copy_and_freeze and train_corrected
C5_LearnedUnchanged ==
    \A q \in DOMAIN learned.grad : learned.grad[q] /\ learned.val[q] = "learned"

C5_Witness ==
    /\ ret.has
    /\ ret.op = "train_corrected"
    /\ \E q \in DOMAIN ret.net.grad : ret.net.grad[q] /\ ret.net.val[q] = "retrained"
    /\ \E q \in DOMAIN ret.net.grad : ~ret.net.grad[q] /\ ret.net.val[q] = "learned"

\* the tensor t is what some function and parameter tuple named for proxy in
\* the intervention specification yields
IntervenedValue(t, proxy) ==
    /\ t.rows = n_samples
    /\ t.cols = 1
    /\ t.src.kind = "func"
    /\ t.src.name \in KnownNames
    /\ \E k \in 1..Len(interventions) :
        /\ interventions[k][1] = proxy
        /\ \E f \in 1..Len(interventions[k][2]) :
            /\ interventions[k][2][f][1] = t.src.name
            /\ \E j \in 1..Len(ParamsList(interventions[k][2][f][2])) :
                ParamsList(interventions[k][2][f][2])[j] = t.src.params

\* C6: after _create_intervened_samples every training sample agrees with the
\* base sample off the proxies and holds an intervened value at a proxy, and
\* the base sample is never modified
C6_SamplesCopyBase ==
    /\ base_sample = BaseSample(widths, n_samples)
    /\ ret.op = "_create_intervened_samples" =>
        \A k \in 1..Len(training_samples) :
            /\ \A v \in Verts \ Range(proxies) : training_samples[k][v] = base_sample[v]
            /\ \E v \in Range(proxies) : IntervenedValue(training_samples[k][v], v)

C6_Witness ==
    /\ ret.op = "_create_intervened_samples"
    /\ ret.err = "none"
    /\ n_samples = NSamples
    /\ \E k, m \in 1..Len(training_samples) :
        /\ training_samples[k]["P"].src.kind = "func"
        /\ training_samples[m]["Q"].src.kind = "func"

\* C7: _update recomputes exactly the vertices of the intervened graph that are
\* neither roots nor the target, parents before children, and no root value
\* and no target value of a training sample is ever a recomputed one
C7_UpdateOrder ==
    LET kept == {v \in Verts : (\A u \in Verts : <<u, v>> \notin intervened_graph) \/ v = target}
    IN  /\ (ret.op = "_update" /\ ret.err = "none") =>
            /\ Range(ret.update) = Verts \ kept
            /\ Len(ret.update) = Cardinality(Verts \ kept)
            /\ \A a, b \in 1..Len(ret.update) :
                <<ret.update[a], ret.update[b]>> \in intervened_graph => a < b
            /\ \A k \in 1..Len(training_samples) : \A v \in Verts \ kept :
                training_samples[k][v].src.kind = "pred"
        /\ \A k \in 1..Len(training_samples) : \A v \in kept :
            training_samples[k][v].src.kind # "pred"

C7_Witness ==
    /\ ret.op = "_update"
    /\ ret.err = "none"
    /\ Len(ret.update) = 2
    /\ <<ret.update[1], ret.update[2]>> \in intervened_graph
    /\ Len(training_samples) > 1

\* C8: for a parent v of the target _get_parameter_indices returns the sum of
\* the widths of the parents before v and that plus the width of v, the ranges
\* of the parents partition the input columns, and for a vertex that is no
\* parent of the target the call fails
C8_ParameterIndices ==
    /\ (ret.op = "_get_parameter_indices" /\ ret.err = "none") =>
        /\ ret.vertex \in TargetParents
        /\ ret.start = Offset(ret.vertex)
        /\ ret.end = ret.start + base_sample[ret.vertex].cols
    /\ (ret.op = "_get_parameter_indices" /\ verbose # Unset) =>
        \A i \in 0..(SeqSum(ParentWidths(intervened_graph, target, base_sample)) - 1) :
            Cardinality({v \in TargetParents :
                LET r == GetParameterIndicesOp(intervened_graph, target, base_sample, v, verbose)
                IN  r.err = "none" /\ r.start <= i /\ i < r.end}) = 1

C8_Witness ==
    /\ ret.op = "_get_parameter_indices"
    /\ ret.err = "none"
    /\ ret.start = MaxWidth + 1
    /\ ret.end = ret.start + MaxWidth

\* C9: in every minibatch row r of Ys holds in column i the prediction of
\* training sample i for the base-sample row p[i1 + r], and at the end of an
\* epoch every row index 0 .. n_samples-1 was used exactly once
C9_Minibatches ==
    pc = "batches" =>
        /\ \A r \in 1..Len(Ys) : \A i \in 1..n_interventions :
            /\ Ys[r][i].sample = i
            /\ Ys[r][i].row = p[(i1 - targs.batchsize) + r]
        /\ Len(rowsUsed) = Cardinality(Range(rowsUsed))
        /\ i1 >= n_samples => Range(rowsUsed) = 0..(n_samples - 1)

C9_Witness ==
    /\ pc = "batches"
    /\ i1 >= n_samples
    /\ targs.batchsize < n_samples
    /\ n_samples % targs.batchsize # 0
    /\ n_interventions > 1
    /\ p[1] # 0
    /\ Len(Ys) = 1

====
